---- MODULE Spec2Model ----
(***************************************************************************)
(* Client-side session and conversation state of the EdgeAI RAG frontend:  *)
(* the zustand stores (authStore, chatStore), the axios client with its    *)
(* interceptors, the useChat / useAuth hooks, the chat page's submit       *)
(* handler, the route guard, the resource hooks (useDocuments, useAgents)  *)
(* with the upload dialog of the documents page, and the collaboration     *)
(* session of the CollaboratorPresence component.                          *)
(***************************************************************************)
EXTENDS Integers, Sequences, FiniteSets, TLC

\* ------------------------------------------------------------------ bounds
MaxMsgs == 4         \* transcript length at which the model stops sending
MaxClock == 2        \* last clock reading (Date.now()) the model explores
MaxPending == 1      \* HTTP requests of the session flows in flight at once
MaxCalls == 1        \* calls of the resource hooks in flight at once
MaxSessions == 2     \* collaboration sessions the backend starts
MaxWrites == 1       \* writes the backend accepts before the model stops writing

\* ------------------------------------------------------------ JS values
Null == "null"
Undefined == "undefined"

\* JS truthiness of a string-or-null value (`if (token)`, `!token`, `a || b`)
Truthy(v) == v # Null /\ v # Undefined /\ v # ""

\* lib/constants STORAGE_KEYS; the literals are the ones useAuth and the
\* Sidebar use for the same entries
STORAGE_KEYS == [TOKEN |-> "edgeai_token", USER |-> "edgeai_user"]

\* ------------------------------------------------------------ input sets
WhiteSpace == {" ", "\n"}

\* what may be typed into the chat box: nothing, white space only, padded
\* text, plain text, text with white space inside
Texts ==
  { <<>>, <<" ">>, <<"\n", " ">>, <<"a">>, <<" ", "a", "\n">>, <<"a", " ", "b">> }

Users == {"u1", "u2"}
Tokens == {"", "t1", "t2"}
ConversationIds == {"c1"}

\* bodies the backend may return for POST /queries/ask (QueryAPIResponse):
\* routing and execution_time_ms are optional
ApiResponses ==
  { [query_id |-> "q1", query |-> "q", response |-> <<"r1">>, sources |-> "[]",
     agent_used |-> "rag_query", routing |-> Undefined, execution_time_ms |-> Undefined],
    [query_id |-> "q2", query |-> "q", response |-> <<"r2">>, sources |-> "[s1]",
     agent_used |-> "summarizer", routing |-> "route1", execution_time_ms |-> 12] }

\* errors a call can be rejected with: HTTP status (0: no response at all)
\* and the optional detail string of the body
Errors ==
  { [status |-> st, detail |-> d] : st \in {401, 500}, d \in {Undefined, "detail1"} }
    \cup { [status |-> 0, detail |-> Undefined] }

\* ---------------------------------------------------------------- state
VARIABLES
  \* chatStore
  currentConversation, currentConversationId, isLoading,
  \* Chat page
  message,
  \* /queries/ask calls awaiting their response, in send order
  inflight,
  \* notifications
  lastToast,
  \* authStore
  user, token, isAuthenticated,
  \* browser
  localStorage, path, fromLoc, view, navTarget, now,
  \* requests of the session flows awaiting their response
  pending,
  \* the operation that produced the state, and whether a 401 has cleared
  \* the persisted session since the last session-store update
  lastOp, cleared401,
  \* chatStore: the conversation list; and the messages handed to addMessage
  \* since the transcript was last empty (fromEmpty is false once the
  \* transcript was set to messages otherwise)
  conversations, added,
  \* Settings page: the save banner of the mounted page
  saveMessage,
  \* the body or the error the step delivered to its caller: <<>> or <<b>>
  lastResponse,
  \* react-query cache of the read queries, and the backend's data behind them
  queryCache, server,
  \* Documents page and its DocumentUpload
  isUploadModalOpen, selectedFile, isUploading,
  \* calls of the resource hooks awaiting their response
  calls,
  \* CollaboratorPresence: whether it is mounted, its documentId prop, its
  \* session state (<<>> or <<s>>), and the session the cleanup of the
  \* session effect closed over (<<>> or <<s>>)
  mounted, documentId, session, cleanupSession,
  \* startSession calls awaiting their response; the backend's count of
  \* sessions started, the ids endSession was called with, and the id of
  \* the last heartbeat (<<>> or <<id>>)
  starting, sessions, ended, pinged

chatVars == <<currentConversation, currentConversationId, isLoading, message, inflight>>
histVars == <<conversations, added>>
authVars == <<user, token, isAuthenticated>>
browserVars == <<localStorage, path, fromLoc, view, navTarget>>
dataVars == <<queryCache, server, isUploadModalOpen, selectedFile, isUploading, calls>>
presenceVars == <<mounted, documentId, session, cleanupSession, starting, sessions,
                  ended, pinged>>
vars == <<chatVars, histVars, lastToast, authVars, browserVars, now, pending, lastOp,
          cleared401, saveMessage, lastResponse, dataVars, presenceVars>>

\* ------------------------------------------------------- String.trim()
RECURSIVE TrimStart(_)
TrimStart(s) ==
  IF s = <<>> THEN s
  ELSE IF Head(s) \in WhiteSpace THEN TrimStart(Tail(s)) ELSE s

RECURSIVE TrimEnd(_)
TrimEnd(s) ==
  IF s = <<>> THEN s
  ELSE IF s[Len(s)] \in WhiteSpace THEN TrimEnd(SubSeq(s, 1, Len(s) - 1)) ELSE s

trim(s) == TrimEnd(TrimStart(s))

\* ------------------------------------------------------- localStorage
\* an entry is <<>> when absent and <<value>> when present
getItem(ls, key) == IF ls[key] = <<>> THEN Null ELSE ls[key][1]
setItem(ls, key, value) == [ls EXCEPT ![key] = <<value>>]
removeItem(ls, key) == [ls EXCEPT ![key] = <<>>]

emptyStorage == [k \in {STORAGE_KEYS.TOKEN, STORAGE_KEYS.USER} |-> <<>>]

\* ---------------------------------------------------------- authStore
initialAuthState == [user |-> Null, token |-> Null, isAuthenticated |-> FALSE]

AuthState == [user |-> user, token |-> token, isAuthenticated |-> isAuthenticated]

\* a setAuth that drops the token
setAuth_withoutToken(u, t) == [user |-> u, token |-> Null, isAuthenticated |-> TRUE]

setAuth(u, t) == [user |-> u, token |-> t, isAuthenticated |-> TRUE]

\* a logout that leaves the flag raised
logout_keepingFlag == [user |-> Null, token |-> Null, isAuthenticated |-> TRUE]

logout == [user |-> Null, token |-> Null, isAuthenticated |-> FALSE]

setUser(st, u) == [st EXCEPT !.user = u]

\* a slice that leaves the token out
partialize_withoutToken(st) ==
  [user |-> st.user, isAuthenticated |-> st.isAuthenticated]

\* persist options: the slice of the state that is written to storage
partialize(st) ==
  [user |-> st.user, token |-> st.token, isAuthenticated |-> st.isAuthenticated]

\* JSON.stringify / JSON.parse of the slice: a user or token that is undefined
\* is not written
stringify(slice) ==
  [f \in {g \in DOMAIN slice : g \in {"user", "token"} => slice[g] # Undefined}
     |-> slice[f]]

\* persist middleware: every set() writes the partialized state under `name`
persist(ls, st) ==
  setItem(ls, STORAGE_KEYS.USER, [state |-> stringify(partialize(st)), version |-> 0])

\* persist middleware at store creation: the stored slice, when there is one,
\* is merged over the initial state
rehydrate(ls) ==
  LET stored == getItem(ls, STORAGE_KEYS.USER)
  IN IF ls[STORAGE_KEYS.USER] = <<>> THEN initialAuthState
     ELSE [f \in DOMAIN initialAuthState |->
             IF f \in DOMAIN stored.state THEN stored.state[f] ELSE initialAuthState[f]]

\* the session store takes the value st (a set() of the store)
StoreIs(st) ==
  /\ user' = st.user
  /\ token' = st.token
  /\ isAuthenticated' = st.isAuthenticated

\* ------------------------------------------------------------ api client
NoHeader == <<>>
Bearer(t) == <<"Bearer", t>>

\* request interceptor: the Authorization header the request leaves with,
\* given the header the caller set itself
RequestInterceptor(ls, explicit) ==
  LET t == getItem(ls, STORAGE_KEYS.TOKEN)
  IN IF Truthy(t) THEN Bearer(t) ELSE explicit

\* an interceptor that spares the login page only
ResponseInterceptor_loginPageOnly(err, ls, pathname, nav) ==
  IF err.status = 401
  THEN [storage |-> removeItem(removeItem(ls, STORAGE_KEYS.TOKEN), STORAGE_KEYS.USER),
        href |-> IF pathname # "/login" THEN "/login" ELSE nav,
        rejected |-> TRUE]
  ELSE [storage |-> ls, href |-> nav, rejected |-> TRUE]

\* response interceptor, error branch: the storage and the pending hard
\* navigation it leaves behind; the error itself is always re-rejected
ResponseInterceptor(err, ls, pathname, nav) ==
  IF err.status = 401
  THEN [storage |-> removeItem(removeItem(ls, STORAGE_KEYS.TOKEN), STORAGE_KEYS.USER),
        href |-> IF pathname # "/login" /\ pathname # "/register" THEN "/login" ELSE nav,
        rejected |-> TRUE]
  ELSE [storage |-> ls, href |-> nav, rejected |-> TRUE]

\* ------------------------------------------------------------- routing
ProtectedPaths == {"/dashboard", "/documents", "/chat", "/agents", "/settings"}
Paths == ProtectedPaths \cup {"/login", "/register", "/"}

PageOf(p) ==
  CASE p = "/dashboard" -> "Dashboard"
    [] p = "/documents" -> "Documents"
    [] p = "/chat" -> "Chat"
    [] p = "/agents" -> "Agents"
    [] p = "/settings" -> "Settings"
    [] p = "/login" -> "Login"
    [] p = "/register" -> "Register"

ProtectedPages == {PageOf(p) : p \in ProtectedPaths}

\* a guard that redirects without the location state
ProtectedRoute_withoutLocation(isAuth, tok, location) ==
  IF ~isAuth \/ ~Truthy(tok)
  THEN [element |-> "Navigate", to |-> "/login", from |-> Null]
  ELSE [element |-> PageOf(location), to |-> Null, from |-> Null]

\* ProtectedRoute: the children, or a <Navigate> to the login page that
\* carries the requested location
ProtectedRoute(isAuth, tok, location) ==
  IF ~isAuth \/ ~Truthy(tok)
  THEN [element |-> "Navigate", to |-> "/login", from |-> location]
  ELSE [element |-> PageOf(location), to |-> Null, from |-> Null]

\* App: the element the router renders for a location
App(location, isAuth, tok) ==
  IF location \in ProtectedPaths THEN ProtectedRoute(isAuth, tok, location)
  ELSE IF location = "/" THEN [element |-> "Navigate", to |-> "/dashboard", from |-> Null]
  ELSE [element |-> PageOf(location), to |-> Null, from |-> Null]

\* ------------------------------------------------------------ chatStore
\* no addMessage call yet on an empty transcript
noneAdded == [fromEmpty |-> TRUE, messages |-> <<>>]

\* an append that drops a message whose id the transcript already holds
addMessage_deduplicating(conversation, m) ==
  IF \E i \in DOMAIN conversation : conversation[i].id = m.id THEN conversation
  ELSE Append(conversation, m)

addMessage(conversation, m) == Append(conversation, m)

\* api/queries askQuestion: the backend body mapped to QueryResponse
askQuestion(body) ==
  [id |-> body.query_id, query |-> body.query, response |-> body.response,
   sources |-> body.sources, agent_used |-> body.agent_used,
   routing |-> body.routing, execution_time_ms |-> body.execution_time_ms]

\* useChat onSuccess: the two messages built from the variables of the
\* mutation, the response and the two clock readings
userMessage(variables, t) ==
  [id |-> t, role |-> "user", content |-> variables.message, timestamp |-> t,
   agent |-> Undefined, sources |-> Undefined, routing |-> Undefined,
   executionTime |-> Undefined]

\* the assistant message without the routing of the response
assistantMessage_withoutRouting(data, t) ==
  [id |-> t + 1, role |-> "assistant", content |-> data.response, timestamp |-> t,
   agent |-> data.agent_used, sources |-> data.sources, routing |-> Undefined,
   executionTime |-> data.execution_time_ms]

assistantMessage(data, t) ==
  [id |-> t + 1, role |-> "assistant", content |-> data.response, timestamp |-> t,
   agent |-> data.agent_used, sources |-> data.sources, routing |-> data.routing,
   executionTime |-> data.execution_time_ms]

\* a success handler that puts the pair in front of the transcript
onSuccess_prepending(conversation, data, variables, t1, t2) ==
  <<userMessage(variables, t1), assistantMessage(data, t2)>> \o conversation

\* a success handler that appends the answer only
onSuccess_assistantOnly(conversation, data, variables, t1, t2) ==
  addMessage(conversation, assistantMessage(data, t2))

onSuccess(conversation, data, variables, t1, t2) ==
  addMessage(addMessage(conversation, userMessage(variables, t1)),
             assistantMessage(data, t2))

\* the text of the error notification: the server's detail, else the fallback
toastText(err, fallback) == IF Truthy(err.detail) THEN err.detail ELSE fallback

RemoveAt(s, i) == SubSeq(s, 1, i - 1) \o SubSeq(s, i + 1, Len(s))

\* what the router shows after a render at location p with session st
Render(p, st) == App(p, st.isAuthenticated, st.token).element

\* an effect of the rendered tree is still to run: a <Navigate>, or the
\* login page's redirect of an authenticated visitor
EffectPending == view = "Navigate" \/ (view = "Login" /\ isAuthenticated)

\* a protected endpoint answers 2xx only to a request that carries a
\* non-empty bearer token
Authorized(req) == req.auth # NoHeader /\ req.auth[2] # ""

\* ------------------------------------------------------------ react-query
\* the read queries of the resource hooks
QueryKeys == {"documents", "agents", "agent-logs"}

\* a query before its first fetch
\* data is <<>> while the query has no data, <<d>> once d was fetched
emptyCache == [k \in QueryKeys |-> [data |-> <<>>, isInvalidated |-> FALSE]]

\* queryClient.invalidateQueries({ queryKey: [k] })
invalidateQueries(cache, k) == [cache EXCEPT ![k].isInvalidated = TRUE]

\* a fetch of the query has delivered data
setQueryData(cache, k, data) == [cache EXCEPT ![k] = [data |-> <<data>>, isInvalidated |-> FALSE]]

\* the page that mounts the hook of a query
QueryPage(k) == IF k = "documents" THEN "Documents" ELSE "Agents"

\* ------------------------------------------------------- DocumentUpload
\* file names, character by character: lower and mixed case, a wrong type,
\* a double extension, no dot at all
FileNames ==
  { <<"a", ".", "p", "d", "f">>, <<"a", ".", "T", "x", "t">>,
    <<"a", ".", "e", "x", "e">>, <<"a", ".", "x", "l", "s", ".", "e", "x", "e">>,
    <<"p", "d", "f">> }

\* String.prototype.split('.'): the pieces between the dots, empty where two
\* dots meet or the name begins or ends with one
RECURSIVE split(_)
split(s) ==
  IF s = <<>> THEN << <<>> >>
  ELSE LET rest == split(Tail(s))
       IN IF Head(s) = "." THEN << <<>> >> \o rest
          ELSE << <<Head(s)>> \o Head(rest) >> \o Tail(rest)

\* String.prototype.toLowerCase
toLowerCase(s) ==
  [i \in 1..Len(s) |->
     CASE s[i] = "P" -> "p"
       [] s[i] = "D" -> "d"
       [] s[i] = "F" -> "f"
       [] s[i] = "T" -> "t"
       [] OTHER -> s[i]]

validExtensions ==
  { <<"p", "d", "f">>, <<"t", "x", "t">>, <<"c", "s", "v">>,
    <<"x", "l", "s", "x">>, <<"x", "l", "s">> }

MaxFileSize == 10 * 1024 * 1024

FileSizes == {1, MaxFileSize, MaxFileSize + 1}

\* the files offered: every name at a small size, and one name of an
\* accepted and one of a refused type at the limit and one byte above it
Files ==
  { f \in [name : FileNames, size : FileSizes] :
      f.size = 1 \/ f.name \in {<<"a", ".", "p", "d", "f">>, <<"a", ".", "e", "x", "e">>} }

\* handleFileSelect: file.name.split('.').pop()?.toLowerCase() || ''
fileExtension(file) ==
  LET parts == split(file.name)
  IN toLowerCase(parts[Len(parts)])

\* handleFileSelect: the selection (<<>>: none, <<file>>) and the
\* notification it leaves
handleFileSelect(file, selected) ==
  IF fileExtension(file) \notin validExtensions
  THEN [selectedFile |-> selected,
        toast |-> "Invalid file type. Please upload PDF, TXT, CSV, or Excel files."]
  ELSE IF file.size > MaxFileSize
       THEN [selectedFile |-> selected, toast |-> "File size exceeds 10MB limit."]
       ELSE [selectedFile |-> <<file>>, toast |-> Null]

\* ============================================================ Chat page
\* onChange of the textarea
SetMessage(t) ==
  /\ view = "Chat"
  /\ t # message
  /\ message' = t
  /\ lastOp' = "setMessage"
  /\ UNCHANGED presenceVars
  /\ lastResponse' = <<>>
  /\ UNCHANGED <<currentConversation, currentConversationId, isLoading, inflight,
                 lastToast, authVars, browserVars, now, pending, cleared401,
                 histVars, saveMessage, dataVars>>

\* a mutationFn that sends the question without raising the loading flag
mutationFn_withoutFlag(variables) ==
  /\ isLoading' = isLoading
  /\ inflight' = Append(inflight,
                   [message |-> variables.message,
                    auth |-> RequestInterceptor(localStorage, NoHeader),
                    seq |-> Len(inflight) + 1])

\* useChat mutationFn up to its await: the loading flag is raised and the
\* question leaves through the api client (seq: its place among the
\* questions in flight when it left)
mutationFn(variables) ==
  /\ isLoading' = TRUE
  /\ inflight' = Append(inflight,
                   [message |-> variables.message,
                    auth |-> RequestInterceptor(localStorage, NoHeader),
                    seq |-> Len(inflight) + 1])

\* the submit handler without the test of the loading flag
handleSendMessage_ignoringLoading ==
  /\ view = "Chat"
  /\ IF trim(message) # <<>>
     THEN /\ Len(currentConversation) + 2 * (Len(inflight) + 1) <= MaxMsgs
          /\ mutationFn([message |-> trim(message)])
          /\ message' = <<>>
     ELSE UNCHANGED <<isLoading, inflight, message>>
  /\ lastOp' = "handleSendMessage"
  /\ UNCHANGED presenceVars
  /\ lastResponse' = <<>>
  /\ UNCHANGED <<currentConversation, currentConversationId,
                 lastToast, authVars, browserVars, now, pending, cleared401,
                 histVars, saveMessage, dataVars>>

\* the submit handler testing the text as typed, not trimmed
handleSendMessage_untrimmed ==
  /\ view = "Chat"
  /\ IF message # <<>> /\ ~isLoading
     THEN /\ Len(currentConversation) + 2 * (Len(inflight) + 1) <= MaxMsgs
          /\ mutationFn([message |-> trim(message)])
          /\ message' = <<>>
     ELSE UNCHANGED <<isLoading, inflight, message>>
  /\ lastOp' = "handleSendMessage"
  /\ UNCHANGED presenceVars
  /\ lastResponse' = <<>>
  /\ UNCHANGED <<currentConversation, currentConversationId,
                 lastToast, authVars, browserVars, now, pending, cleared401,
                 histVars, saveMessage, dataVars>>

\* Chat.handleSendMessage (button click, or Enter in the textarea)
handleSendMessage ==
  /\ view = "Chat"
  /\ IF trim(message) # <<>> /\ ~isLoading
     THEN /\ Len(currentConversation) + 2 * (Len(inflight) + 1) <= MaxMsgs
          /\ mutationFn([message |-> trim(message)])
          /\ message' = <<>>
     ELSE UNCHANGED <<isLoading, inflight, message>>
  /\ lastOp' = "handleSendMessage"
  /\ UNCHANGED presenceVars
  /\ lastResponse' = <<>>
  /\ UNCHANGED <<currentConversation, currentConversationId,
                 lastToast, authVars, browserVars, now, pending, cleared401,
                 histVars, saveMessage, dataVars>>

\* questions a caller of the hook may send
HookMessages == { <<"a">>, <<"a", " ", "b">> }

\* useChat sendMessage, as the hook hands it to its callers: the mutation
\* is started whatever the loading flag says
sendMessage(m) ==
  /\ view = "Chat"
  /\ Len(currentConversation) + 2 * (Len(inflight) + 1) <= MaxMsgs
  /\ mutationFn([message |-> m])
  /\ lastOp' = "sendMessage"
  /\ UNCHANGED presenceVars
  /\ lastResponse' = <<>>
  /\ UNCHANGED <<currentConversation, currentConversationId, message,
                 lastToast, authVars, browserVars, now, pending, cleared401,
                 histVars, saveMessage, dataVars>>

\* the backend answers a question: askQuestion maps the body, onSuccess
\* appends the pair and clears the flag.  The clock may advance between the
\* two Date.now() readings.
AskResolve(i, body, dt) ==
  /\ i \in DOMAIN inflight
  /\ Authorized(inflight[i])
  /\ now + dt <= MaxClock
  /\ currentConversation' =
       onSuccess(currentConversation, askQuestion(body), inflight[i], now, now + dt)
  /\ added' = IF ~added.fromEmpty THEN added
              ELSE [added EXCEPT !.messages =
                      @ \o <<userMessage(inflight[i], now),
                             assistantMessage(askQuestion(body), now + dt)>>]
  /\ isLoading' = FALSE
  /\ inflight' = RemoveAt(inflight, i)
  /\ now' = now + dt
  /\ lastOp' = "askSuccess"
  /\ UNCHANGED presenceVars
  /\ lastResponse' = <<body>>
  /\ UNCHANGED <<currentConversationId, message, lastToast, authVars, browserVars,
                 pending, cleared401, conversations, saveMessage, dataVars>>

\* an error handler that appends the question it could not send
onError_keepingQuestion(err) ==
  /\ isLoading' = FALSE
  /\ lastToast' = toastText(err, "Failed to send message. Please try again.")
  /\ currentConversation' =
       addMessage(currentConversation, userMessage([message |-> <<"a">>], now))
  /\ UNCHANGED currentConversationId

\* an error handler that leaves the loading flag raised
onError_keepingLoading(err) ==
  /\ lastToast' = toastText(err, "Failed to send message. Please try again.")
  /\ UNCHANGED <<currentConversation, currentConversationId, isLoading>>

\* useChat sendMessageMutation.onError
onError(err) ==
  /\ isLoading' = FALSE
  /\ lastToast' = toastText(err, "Failed to send message. Please try again.")
  /\ UNCHANGED <<currentConversation, currentConversationId>>

\* the question is rejected: response interceptor, then onError
AskReject(i, err) ==
  /\ i \in DOMAIN inflight
  /\ LET r == ResponseInterceptor(err, localStorage, path, navTarget)
     IN /\ localStorage' = r.storage
        /\ navTarget' = r.href
  /\ cleared401' = (cleared401 \/ err.status = 401)
  /\ onError(err)
  /\ inflight' = RemoveAt(inflight, i)
  /\ lastOp' = "askError"
  /\ UNCHANGED presenceVars
  /\ lastResponse' = <<err>>
  /\ UNCHANGED <<message, authVars, path, fromLoc, view, now, pending,
                 histVars, saveMessage, dataVars>>

\* "Clear conversation" button, shown while the transcript is not empty
clearCurrentConversation ==
  /\ view = "Chat"
  /\ Len(currentConversation) > 0
  /\ currentConversation' = <<>>
  /\ currentConversationId' = Null
  /\ added' = noneAdded
  /\ lastOp' = "clearCurrentConversation"
  /\ UNCHANGED presenceVars
  /\ lastResponse' = <<>>
  /\ UNCHANGED <<isLoading, message, inflight, lastToast, authVars, browserVars,
                 now, pending, cleared401, conversations, saveMessage, dataVars>>

\* setCurrentConversationId, as the hook hands it to its callers
setCurrentConversationId(id) ==
  /\ view = "Chat"
  /\ id # currentConversationId
  /\ currentConversationId' = id
  /\ lastOp' = "setCurrentConversationId"
  /\ UNCHANGED presenceVars
  /\ lastResponse' = <<>>
  /\ UNCHANGED <<currentConversation, isLoading, message, inflight, lastToast,
                 authVars, browserVars, now, pending, cleared401,
                 histVars, saveMessage, dataVars>>

\* time passes
Tick ==
  /\ now < MaxClock
  /\ now' = now + 1
  /\ lastOp' = "tick"
  /\ UNCHANGED presenceVars
  /\ lastResponse' = <<>>
  /\ UNCHANGED <<chatVars, lastToast, authVars, browserVars, pending, cleared401,
                 histVars, saveMessage, dataVars>>

\* ============================================================== browser
\* the page is loaded anew (the user's reload, or the navigation started by
\* window.location.href): every store is created again, the session store
\* rehydrates, calls in flight are dropped
Reload ==
  /\ LET target == IF navTarget # Null THEN navTarget ELSE path
         st == rehydrate(localStorage)
     IN /\ StoreIs(st)
        /\ path' = target
        /\ fromLoc' = IF navTarget # Null THEN Null ELSE fromLoc
        /\ view' = Render(target, st)
  /\ navTarget' = Null
  /\ currentConversation' = <<>>
  /\ currentConversationId' = Null
  /\ isLoading' = FALSE
  /\ message' = <<>>
  /\ inflight' = <<>>
  /\ pending' = {}
  /\ lastToast' = Null
  /\ lastOp' = "reload"
  /\ UNCHANGED presenceVars
  /\ cleared401' = FALSE
  /\ conversations' = <<>>
  /\ added' = noneAdded
  /\ saveMessage' = Null
  /\ lastResponse' = <<>>
  /\ queryCache' = emptyCache
  /\ isUploadModalOpen' = FALSE
  /\ selectedFile' = <<>>
  /\ isUploading' = FALSE
  /\ calls' = {}
  /\ UNCHANGED <<localStorage, now, server>>

\* the effect of a rendered <Navigate to state replace>
NavigateEffect ==
  /\ view = "Navigate"
  /\ LET el == App(path, isAuthenticated, token)
     IN /\ path' = el.to
        /\ fromLoc' = el.from
        /\ view' = Render(el.to, AuthState)
  /\ lastOp' = "navigate"
  /\ UNCHANGED presenceVars
  /\ lastResponse' = <<>>
  /\ UNCHANGED <<chatVars, lastToast, authVars, localStorage, navTarget, now,
                 pending, cleared401, histVars, saveMessage, dataVars>>

\* Login page effect: an authenticated visitor is sent to the recorded
\* location, or to "/"
LoginEffect ==
  /\ view = "Login"
  /\ isAuthenticated
  /\ LET from == IF Truthy(fromLoc) THEN fromLoc ELSE "/"
     IN /\ path' = from
        /\ view' = Render(from, AuthState)
  /\ fromLoc' = Null
  /\ lastOp' = "loginEffect"
  /\ UNCHANGED presenceVars
  /\ lastResponse' = <<>>
  /\ UNCHANGED <<chatVars, lastToast, authVars, localStorage, navTarget, now,
                 pending, cleared401, histVars, saveMessage, dataVars>>

\* a link of the application is followed: the page that was shown is
\* unmounted and its component state is gone
UserNavigate(p) ==
  /\ ~EffectPending
  /\ p # path
  /\ path' = p
  /\ fromLoc' = Null
  /\ view' = Render(p, AuthState)
  /\ isUploadModalOpen' = FALSE
  /\ selectedFile' = <<>>
  /\ isUploading' = FALSE
  /\ saveMessage' = Null
  /\ lastOp' = "userNavigate"
  /\ UNCHANGED presenceVars
  /\ lastResponse' = <<>>
  /\ UNCHANGED <<chatVars, lastToast, authVars, localStorage, navTarget, now,
                 pending, cleared401, histVars, queryCache, server, calls>>

\* ======================================================== session flows
Request(kind, explicit, tok, usr) ==
  [kind |-> kind, auth |-> RequestInterceptor(localStorage, explicit),
   tok |-> tok, usr |-> usr]

Send(req) ==
  /\ Cardinality(pending) < MaxPending
  /\ req \notin pending
  /\ pending' = pending \cup {req}

\* a session-store update st followed by the handler's own storage writes
\* (after(ls)) and the render the update causes at location p
Commit(st, ls, p) ==
  /\ StoreIs(st)
  /\ localStorage' = ls
  /\ path' = p
  /\ view' = Render(p, st)
  /\ cleared401' = FALSE

\* Login.onSubmit -> useAuth login mutation: POST /auth/login
LoginSubmit ==
  /\ view = "Login"
  /\ ~EffectPending
  /\ Send(Request("login", NoHeader, Null, Null))
  /\ lastOp' = "loginSubmit"
  /\ UNCHANGED presenceVars
  /\ lastResponse' = <<>>
  /\ UNCHANGED <<chatVars, lastToast, authVars, browserVars, now, cleared401,
                 histVars, saveMessage, dataVars>>

\* api/auth login: the token arrives, GET /auth/me is sent with it
LoginToken(req, t) ==
  /\ req \in pending
  /\ req.kind = "login"
  /\ pending' = (pending \ {req}) \cup {Request("loginMe", Bearer(t), t, Null)}
  /\ lastOp' = "loginToken"
  /\ UNCHANGED presenceVars
  /\ lastResponse' = <<>>
  /\ UNCHANGED <<chatVars, lastToast, authVars, browserVars, now, cleared401,
                 histVars, saveMessage, dataVars>>

\* api/auth login resolves; loginMutation.onSuccess
LoginSuccess(req, u) ==
  /\ req \in pending
  /\ req.kind = "loginMe"
  /\ Authorized(req)
  /\ pending' = pending \ {req}
  /\ LET st == setAuth(u, req.tok)
     IN Commit(st, setItem(persist(localStorage, st), "edgeai_token", req.tok), path)
  /\ lastToast' = "Login successful!"
  /\ lastOp' = "loginSuccess"
  /\ UNCHANGED presenceVars
  /\ lastResponse' = <<u>>
  /\ UNCHANGED <<chatVars, fromLoc, navTarget, now, histVars, saveMessage, dataVars>>

\* Register.onSubmit -> useAuth register mutation: POST /auth/register
RegisterSubmit ==
  /\ view = "Register"
  /\ Send(Request("register", NoHeader, Null, Null))
  /\ lastOp' = "registerSubmit"
  /\ UNCHANGED presenceVars
  /\ lastResponse' = <<>>
  /\ UNCHANGED <<chatVars, lastToast, authVars, browserVars, now, cleared401,
                 histVars, saveMessage, dataVars>>

\* api/auth register: the account is created, POST /auth/login follows
RegisterCreated(req, u) ==
  /\ req \in pending
  /\ req.kind = "register"
  /\ pending' = (pending \ {req}) \cup {Request("registerLogin", NoHeader, Null, u)}
  /\ lastOp' = "registerCreated"
  /\ UNCHANGED presenceVars
  /\ lastResponse' = <<>>
  /\ UNCHANGED <<chatVars, lastToast, authVars, browserVars, now, cleared401,
                 histVars, saveMessage, dataVars>>

\* api/auth register resolves; registerMutation.onSuccess
RegisterSuccess(req, t) ==
  /\ req \in pending
  /\ req.kind = "registerLogin"
  /\ pending' = pending \ {req}
  /\ LET st == setAuth(req.usr, t)
     IN Commit(st, setItem(persist(localStorage, st), "edgeai_token", t), "/")
  /\ fromLoc' = Null
  /\ lastToast' = "Account created successfully!"
  /\ lastOp' = "registerSuccess"
  /\ UNCHANGED presenceVars
  /\ lastResponse' = <<req.usr>>
  /\ UNCHANGED <<chatVars, navTarget, now, histVars, saveMessage, dataVars>>

\* Sidebar.handleLogout
handleLogout ==
  /\ view \in ProtectedPages
  /\ Commit(logout,
            removeItem(removeItem(persist(localStorage, logout), "edgeai_token"),
                       "edgeai_user"),
            "/login")
  /\ fromLoc' = Null
  /\ lastOp' = "logout"
  /\ UNCHANGED presenceVars
  /\ lastResponse' = <<>>
  /\ UNCHANGED <<chatVars, lastToast, navTarget, now, pending,
                 histVars, saveMessage, dataVars>>

\* useAuth logout
useAuthLogout ==
  /\ ~EffectPending
  /\ Commit(logout, removeItem(persist(localStorage, logout), "edgeai_token"), "/login")
  /\ fromLoc' = Null
  /\ lastToast' = "Logged out successfully."
  /\ lastOp' = "logout"
  /\ UNCHANGED presenceVars
  /\ lastResponse' = <<>>
  /\ UNCHANGED <<chatVars, navTarget, now, pending, histVars, saveMessage, dataVars>>

\* Settings.handleSave: PATCH /auth/me
handleSave ==
  /\ view = "Settings"
  /\ Send(Request("patchMe", NoHeader, Null, Null))
  /\ saveMessage' = Null
  /\ lastOp' = "handleSave"
  /\ UNCHANGED presenceVars
  /\ lastResponse' = <<>>
  /\ UNCHANGED <<chatVars, lastToast, authVars, browserVars, now, cleared401,
                 histVars, dataVars>>

\* Settings.handleSave after the PATCH: the banner reports success and
\* refreshUser sends GET /auth/me
refreshUser(req) ==
  /\ req \in pending
  /\ req.kind = "patchMe"
  /\ Authorized(req)
  /\ pending' = (pending \ {req}) \cup {Request("refresh", NoHeader, Null, Null)}
  /\ saveMessage' = IF view = "Settings" THEN "success" ELSE saveMessage
  /\ lastOp' = "refreshUser"
  /\ UNCHANGED presenceVars
  /\ lastResponse' = <<>>
  /\ UNCHANGED <<chatVars, lastToast, authVars, browserVars, now, cleared401,
                 histVars, dataVars>>

\* refreshUser, try branch: set({ user: response.data })
RefreshSuccess(req, u) ==
  /\ req \in pending
  /\ req.kind = "refresh"
  /\ Authorized(req)
  /\ pending' = pending \ {req}
  /\ LET st == setUser(AuthState, u)
     IN Commit(st, persist(localStorage, st), path)
  /\ lastOp' = "refreshSuccess"
  /\ UNCHANGED presenceVars
  /\ lastResponse' = <<u>>
  /\ UNCHANGED <<chatVars, lastToast, fromLoc, navTarget, now,
                 histVars, saveMessage, dataVars>>

\* useAuth: the ['auth','me'] query, enabled while there is a token
MeQuery ==
  /\ view \in {"Login", "Register"}
  /\ ~EffectPending
  /\ Truthy(token) \/ Truthy(getItem(localStorage, "edgeai_token"))
  /\ Send(Request("me", NoHeader, Null, Null))
  /\ lastOp' = "meQuery"
  /\ UNCHANGED presenceVars
  /\ lastResponse' = <<>>
  /\ UNCHANGED <<chatVars, lastToast, authVars, browserVars, now, cleared401,
                 histVars, saveMessage, dataVars>>

\* useAuth: the query has fetched; the initialisation effect calls setUser
\* when the hook is still mounted and there is still a token
MeSuccess(req, u) ==
  /\ req \in pending
  /\ req.kind = "me"
  /\ Authorized(req)
  /\ pending' = pending \ {req}
  /\ IF /\ view \in {"Login", "Register"}
        /\ Truthy(token) \/ Truthy(getItem(localStorage, "edgeai_token"))
     THEN LET st == setUser(AuthState, u)
          IN Commit(st, persist(localStorage, st), path)
     ELSE UNCHANGED <<authVars, localStorage, path, view, cleared401>>
  /\ lastOp' = "meSuccess"
  /\ UNCHANGED presenceVars
  /\ lastResponse' = <<u>>
  /\ UNCHANGED <<chatVars, lastToast, fromLoc, navTarget, now,
                 histVars, saveMessage, dataVars>>

\* any other call of a protected page (documents, agents, dashboard ...)
ApiCall ==
  /\ view \in ProtectedPages
  /\ Send(Request("api", NoHeader, Null, Null))
  /\ lastOp' = "apiCall"
  /\ UNCHANGED presenceVars
  /\ lastResponse' = <<>>
  /\ UNCHANGED <<chatVars, lastToast, authVars, browserVars, now, cleared401,
                 histVars, saveMessage, dataVars>>

ApiSuccess(req) ==
  /\ req \in pending
  /\ req.kind = "api"
  /\ Authorized(req)
  /\ pending' = pending \ {req}
  /\ lastOp' = "apiSuccess"
  /\ UNCHANGED presenceVars
  /\ lastResponse' = <<>>
  /\ UNCHANGED <<chatVars, lastToast, authVars, browserVars, now, cleared401,
                 histVars, saveMessage, dataVars>>

\* the fallback text of the mutation whose call failed, Null when the
\* caller shows no notification
Fallback(kind) ==
  CASE kind \in {"login", "loginMe"} -> "Login failed. Please try again."
    [] kind \in {"register", "registerLogin"} -> "Registration failed. Please try again."
    [] OTHER -> Null

\* a catch branch that forgets the cached user and lets the error through
refreshUserCatch_rethrowing(st) == [store |-> setUser(st, Null), thrown |-> TRUE]

\* refreshUser, catch branch: the error is logged, the store is not touched
\* and nothing is thrown to the caller
refreshUserCatch(st) == [store |-> st, thrown |-> FALSE]

\* a call of the session flows is rejected: response interceptor, then the
\* caller's error handling (a notification, the save banner, or nothing)
RequestReject(req, err) ==
  /\ req \in pending
  /\ pending' = pending \ {req}
  /\ LET r == ResponseInterceptor(err, localStorage, path, navTarget)
     IN /\ localStorage' = r.storage
        /\ navTarget' = r.href
  /\ cleared401' = (cleared401 \/ err.status = 401)
  /\ lastToast' = IF Fallback(req.kind) = Null THEN lastToast
                  ELSE toastText(err, Fallback(req.kind))
  /\ IF req.kind = "refresh"
     THEN LET c == refreshUserCatch(AuthState)
          IN /\ StoreIs(c.store)
             /\ saveMessage' = IF c.thrown /\ view = "Settings" THEN "error"
                               ELSE saveMessage
     ELSE /\ UNCHANGED authVars
          /\ saveMessage' = IF req.kind = "patchMe" /\ view = "Settings" THEN "error"
                            ELSE saveMessage
  /\ lastOp' = IF err.status = 401 THEN "reject401" ELSE "rejectOther"
  /\ UNCHANGED presenceVars
  /\ lastResponse' = <<err>>
  /\ UNCHANGED <<chatVars, path, fromLoc, view, now, histVars, dataVars>>

\* Settings.handleSave, finally: the banner is taken down three seconds
\* after the save has settled
SaveMessageTimeout ==
  /\ saveMessage # Null
  /\ \A req \in pending : req.kind \notin {"patchMe", "refresh"}
  /\ saveMessage' = Null
  /\ lastOp' = "saveMessageTimeout"
  /\ UNCHANGED presenceVars
  /\ lastResponse' = <<>>
  /\ UNCHANGED <<chatVars, lastToast, authVars, browserVars, now, pending, cleared401,
                 histVars, dataVars>>

\* ================================================ chatStore operations
\* messages a caller may hand to the store; two of them share an id
StoreMessages ==
  { userMessage([message |-> <<"a">>], 0),
    assistantMessage(askQuestion(CHOOSE b \in ApiResponses : b.query_id = "q2"), 0),
    userMessage([message |-> <<"a", " ", "b">>], 1) }

\* transcripts a caller may hand to setCurrentConversation
StoreTranscripts ==
  { <<>>,
    <<userMessage([message |-> <<"a">>], 0)>>,
    <<userMessage([message |-> <<"a", " ", "b">>], 1), userMessage([message |-> <<"a">>], 0)>> }

\* conversation lists a caller may hand to setConversations
StoreHistories == { <<>>, <<"c1">> }

\* setCurrentConversation(messages)
storeSetCurrentConversation(messages) ==
  /\ messages # currentConversation
  /\ currentConversation' = messages
  /\ added' = IF messages = <<>> THEN noneAdded
              ELSE [fromEmpty |-> FALSE, messages |-> <<>>]
  /\ lastOp' = "setCurrentConversation"
  /\ UNCHANGED presenceVars
  /\ lastResponse' = <<>>
  /\ UNCHANGED <<currentConversationId, isLoading, message, inflight, conversations,
                 lastToast, authVars, browserVars, now, pending, cleared401,
                 saveMessage, dataVars>>

\* addMessage(message)
storeAddMessage(m) ==
  /\ Len(currentConversation) < MaxMsgs
  /\ currentConversation' = addMessage(currentConversation, m)
  /\ added' = IF ~added.fromEmpty THEN added
              ELSE [added EXCEPT !.messages = Append(@, m)]
  /\ lastOp' = "addMessage"
  /\ UNCHANGED presenceVars
  /\ lastResponse' = <<>>
  /\ UNCHANGED <<currentConversationId, isLoading, message, inflight, conversations,
                 lastToast, authVars, browserVars, now, pending, cleared401,
                 saveMessage, dataVars>>

\* setConversations(conversations)
storeSetConversations(list) ==
  /\ list # conversations
  /\ conversations' = list
  /\ lastOp' = "setConversations"
  /\ UNCHANGED presenceVars
  /\ lastResponse' = <<>>
  /\ UNCHANGED <<chatVars, added, lastToast, authVars, browserVars, now, pending,
                 cleared401, saveMessage, dataVars>>

\* setLoading(loading)
storeSetLoading(loading) ==
  /\ loading # isLoading
  /\ isLoading' = loading
  /\ lastOp' = "setLoading"
  /\ UNCHANGED presenceVars
  /\ lastResponse' = <<>>
  /\ UNCHANGED <<currentConversation, currentConversationId, message, inflight,
                 histVars, lastToast, authVars, browserVars, now, pending, cleared401,
                 saveMessage, dataVars>>

\* a clear that keeps the current conversation id
storeClearCurrentConversation_keepingId ==
  /\ currentConversation' = <<>>
  /\ added' = noneAdded
  /\ lastOp' = "clearCurrentConversation"
  /\ UNCHANGED presenceVars
  /\ lastResponse' = <<>>
  /\ UNCHANGED <<currentConversationId, isLoading, message, inflight, conversations,
                 lastToast, authVars, browserVars, now, pending, cleared401,
                 saveMessage, dataVars>>

\* clearCurrentConversation(), called in any state of the store
storeClearCurrentConversation ==
  /\ currentConversation' = <<>>
  /\ currentConversationId' = Null
  /\ added' = noneAdded
  /\ lastOp' = "clearCurrentConversation"
  /\ UNCHANGED presenceVars
  /\ lastResponse' = <<>>
  /\ UNCHANGED <<isLoading, message, inflight, conversations, lastToast, authVars,
                 browserVars, now, pending, cleared401, saveMessage, dataVars>>

\* ======================================================= resource hooks
\* the read query a write changes the data of
RelatedKey(kind) == IF kind = "execute" THEN "agent-logs" ELSE "documents"

\* a call of a resource hook as it leaves through the api client
Call(kind, key, file, failureCount) ==
  [kind |-> kind, key |-> key, file |-> file, failureCount |-> failureCount,
   auth |-> RequestInterceptor(localStorage, NoHeader)]

\* the notification of a write that succeeded
successToast(kind) ==
  CASE kind = "upload" -> "Document uploaded successfully!"
    [] kind = "delete" -> "Document deleted successfully!"
    [] kind = "process" -> "Document processing started!"
    [] kind = "execute" -> "Agent executed successfully!"

\* the notification of a write that failed: DocumentUpload.handleUpload shows
\* a fixed text, the mutations of the hooks prefer the detail of the error
errorToast(kind, err) ==
  CASE kind = "upload" -> "Failed to upload document. Please try again."
    [] kind = "delete" -> toastText(err, "Failed to delete document.")
    [] kind = "process" -> toastText(err, "Failed to process document.")
    [] kind = "execute" -> toastText(err, "Failed to execute agent.")

\* QueryClient defaultOptions.queries.retry
QueryRetry == 1

\* "Upload Document" button of the Documents page
openUploadModal ==
  /\ view = "Documents"
  /\ ~isUploadModalOpen
  /\ isUploadModalOpen' = TRUE
  /\ lastOp' = "openUploadModal"
  /\ UNCHANGED presenceVars
  /\ lastResponse' = <<>>
  /\ UNCHANGED <<chatVars, histVars, lastToast, authVars, browserVars, now, pending,
                 cleared401, saveMessage, queryCache, server, selectedFile,
                 isUploading, calls>>

\* Modal onClose
closeUploadModal ==
  /\ view = "Documents"
  /\ isUploadModalOpen
  /\ isUploadModalOpen' = FALSE
  /\ lastOp' = "closeUploadModal"
  /\ UNCHANGED presenceVars
  /\ lastResponse' = <<>>
  /\ UNCHANGED <<chatVars, histVars, lastToast, authVars, browserVars, now, pending,
                 cleared401, saveMessage, queryCache, server, selectedFile,
                 isUploading, calls>>

\* DocumentUpload.handleInputChange / handleDrop: a file is offered
handleInputChange(file) ==
  /\ view = "Documents"
  /\ isUploadModalOpen
  /\ LET r == handleFileSelect(file, selectedFile)
     IN /\ selectedFile' = r.selectedFile
        /\ lastToast' = IF r.toast = Null THEN lastToast ELSE r.toast
  /\ lastOp' = "handleFileSelect"
  /\ UNCHANGED presenceVars
  /\ lastResponse' = <<>>
  /\ UNCHANGED <<chatVars, histVars, authVars, browserVars, now, pending, cleared401,
                 saveMessage, queryCache, server, isUploadModalOpen, isUploading, calls>>

\* DocumentUpload.clearSelectedFile
clearSelectedFile ==
  /\ view = "Documents"
  /\ isUploadModalOpen
  /\ selectedFile # <<>>
  /\ selectedFile' = <<>>
  /\ lastOp' = "clearSelectedFile"
  /\ UNCHANGED presenceVars
  /\ lastResponse' = <<>>
  /\ UNCHANGED <<chatVars, histVars, lastToast, authVars, browserVars, now, pending,
                 cleared401, saveMessage, queryCache, server, isUploadModalOpen,
                 isUploading, calls>>

\* DocumentUpload.handleUpload up to its await; the button is shown for a
\* selected file and disabled while isUploading
handleUpload ==
  /\ view = "Documents"
  /\ isUploadModalOpen
  /\ selectedFile # <<>>
  /\ ~isUploading
  /\ Cardinality(calls) < MaxCalls
  /\ isUploading' = TRUE
  /\ calls' = calls \cup {Call("upload", Null, selectedFile, 0)}
  /\ lastOp' = "handleUpload"
  /\ UNCHANGED presenceVars
  /\ lastResponse' = <<>>
  /\ UNCHANGED <<chatVars, histVars, lastToast, authVars, browserVars, now, pending,
                 cleared401, saveMessage, queryCache, server, isUploadModalOpen,
                 selectedFile>>

\* the upload is stored: handleUpload after its await, with the page's
\* handleUploadComplete, which closes the modal
UploadResolve(call) ==
  /\ call \in calls
  /\ call.kind = "upload"
  /\ Authorized(call)
  /\ server["documents"] < MaxWrites
  /\ calls' = calls \ {call}
  /\ server' = [server EXCEPT !["documents"] = @ + 1]
  /\ lastToast' = successToast("upload")
  /\ isUploadModalOpen' = FALSE
  /\ selectedFile' = <<>>
  /\ isUploading' = FALSE
  /\ lastOp' = "mutationSuccess"
  /\ UNCHANGED presenceVars
  /\ lastResponse' = <<>>
  /\ UNCHANGED <<chatVars, histVars, authVars, browserVars, now, pending, cleared401,
                 saveMessage, queryCache>>

\* a write through a mutation of the hooks: Documents.handleDelete and the
\* process buttons (a listed document), Agents.handleExecuteAgent (a listed
\* agent)
Mutate(kind) ==
  /\ \/ kind \in {"delete", "process"} /\ view = "Documents"
        /\ queryCache["documents"].data # <<>>
     \/ kind = "execute" /\ view = "Agents" /\ queryCache["agents"].data # <<>>
  /\ Cardinality(calls) < MaxCalls
  /\ Call(kind, Null, <<>>, 0) \notin calls
  /\ calls' = calls \cup {Call(kind, Null, <<>>, 0)}
  /\ lastOp' = "mutate"
  /\ UNCHANGED presenceVars
  /\ lastResponse' = <<>>
  /\ UNCHANGED <<chatVars, histVars, lastToast, authVars, browserVars, now, pending,
                 cleared401, saveMessage, queryCache, server, isUploadModalOpen,
                 selectedFile, isUploading>>

\* the write is done: onSuccess of the mutation
MutationResolve(call) ==
  /\ call \in calls
  /\ call.kind \in {"delete", "process", "execute"}
  /\ Authorized(call)
  /\ server[RelatedKey(call.kind)] < MaxWrites
  /\ calls' = calls \ {call}
  /\ server' = [server EXCEPT ![RelatedKey(call.kind)] = @ + 1]
  /\ queryCache' = invalidateQueries(queryCache, RelatedKey(call.kind))
  /\ lastToast' = successToast(call.kind)
  /\ lastOp' = "mutationSuccess"
  /\ UNCHANGED presenceVars
  /\ lastResponse' = <<>>
  /\ UNCHANGED <<chatVars, histVars, authVars, browserVars, now, pending, cleared401,
                 saveMessage, isUploadModalOpen, selectedFile, isUploading>>

\* the write is rejected: response interceptor, then the catch of
\* handleUpload or onError of the mutation
MutationReject(call, err) ==
  /\ call \in calls
  /\ call.kind \in {"upload", "delete", "process", "execute"}
  /\ calls' = calls \ {call}
  /\ LET r == ResponseInterceptor(err, localStorage, path, navTarget)
     IN /\ localStorage' = r.storage
        /\ navTarget' = r.href
  /\ cleared401' = (cleared401 \/ err.status = 401)
  /\ lastToast' = errorToast(call.kind, err)
  /\ isUploading' = IF call.kind = "upload" THEN FALSE ELSE isUploading
  /\ lastOp' = "mutationError"
  /\ UNCHANGED presenceVars
  /\ lastResponse' = <<>>
  /\ UNCHANGED <<chatVars, histVars, authVars, path, fromLoc, view, now, pending,
                 saveMessage, queryCache, server, isUploadModalOpen, selectedFile>>

\* useQuery: the mounted query fetches when it has no data or was invalidated
QueryFetch(k) ==
  /\ view = QueryPage(k)
  /\ queryCache[k].data = <<>> \/ queryCache[k].isInvalidated
  /\ \A call \in calls : ~(call.kind = "query" /\ call.key = k)
  /\ Cardinality(calls) < MaxCalls
  /\ calls' = calls \cup {Call("query", k, <<>>, 0)}
  /\ lastOp' = "queryFetch"
  /\ UNCHANGED presenceVars
  /\ lastResponse' = <<>>
  /\ UNCHANGED <<chatVars, histVars, lastToast, authVars, browserVars, now, pending,
                 cleared401, saveMessage, queryCache, server, isUploadModalOpen,
                 selectedFile, isUploading>>

\* the fetch delivers the backend's data
QueryResolve(call) ==
  /\ call \in calls
  /\ call.kind = "query"
  /\ Authorized(call)
  /\ calls' = calls \ {call}
  /\ queryCache' = setQueryData(queryCache, call.key, server[call.key])
  /\ lastOp' = "querySuccess"
  /\ UNCHANGED presenceVars
  /\ lastResponse' = <<>>
  /\ UNCHANGED <<chatVars, histVars, lastToast, authVars, browserVars, now, pending,
                 cleared401, saveMessage, server, isUploadModalOpen, selectedFile,
                 isUploading>>

\* the fetch is rejected: response interceptor, then the query is tried
\* again until QueryRetry failures have been retried
QueryReject(call, err) ==
  /\ call \in calls
  /\ call.kind = "query"
  /\ LET r == ResponseInterceptor(err, localStorage, path, navTarget)
     IN /\ localStorage' = r.storage
        /\ navTarget' = r.href
        /\ calls' = IF call.failureCount < QueryRetry
                    THEN (calls \ {call}) \cup
                           {[call EXCEPT !.failureCount = @ + 1,
                                         !.auth = RequestInterceptor(r.storage, NoHeader)]}
                    ELSE calls \ {call}
  /\ cleared401' = (cleared401 \/ err.status = 401)
  /\ lastOp' = "queryError"
  /\ UNCHANGED presenceVars
  /\ lastResponse' = <<>>
  /\ UNCHANGED <<chatVars, histVars, lastToast, authVars, path, fromLoc, view, now,
                 pending, saveMessage, queryCache, server, isUploadModalOpen,
                 selectedFile, isUploading>>

\* ================================================= CollaboratorPresence
DocumentIds == {"d1", "d2"}

\* everything outside the component
appVars == <<chatVars, histVars, lastToast, authVars, browserVars, now, pending,
             cleared401, saveMessage, dataVars>>

\* the component is not rendered
PresenceInit ==
  /\ mounted = FALSE
  /\ documentId = "d1"
  /\ session = <<>>
  /\ cleanupSession = <<>>
  /\ starting = {}
  /\ sessions = 0
  /\ ended = {}
  /\ pinged = <<>>

\* the cleanup of the session effect: endSession for the session the
\* closure holds, if it holds one
sessionCleanup(closed, endedIds) ==
  IF closed # <<>> THEN endedIds \cup {closed[1].session_id} ELSE endedIds

\* initSession up to its await
initSession(d) == [doc |-> d, orphan |-> FALSE]

\* first render for document d: session is null, the session effect runs
\* with that value in its closure and calls startSession
mount(d) ==
  /\ ~mounted
  /\ initSession(d) \notin starting
  /\ sessions + Cardinality(starting) < MaxSessions
  /\ mounted' = TRUE
  /\ documentId' = d
  /\ session' = <<>>
  /\ cleanupSession' = <<>>
  /\ starting' = starting \cup {initSession(d)}
  /\ lastOp' = "mount"
  /\ lastResponse' = <<>>
  /\ UNCHANGED <<appVars, sessions, ended, pinged>>

\* the documentId prop changes: the cleanup of the session effect runs with
\* the session it closed over, the effect runs again, closing over the
\* session of this render, and calls startSession
changeDocument(d) ==
  /\ mounted
  /\ d # documentId
  /\ initSession(d) \notin starting
  /\ sessions + Cardinality(starting) < MaxSessions
  /\ ended' = sessionCleanup(cleanupSession, ended)
  /\ cleanupSession' = session
  /\ documentId' = d
  /\ starting' = starting \cup {initSession(d)}
  /\ lastOp' = "changeDocument"
  /\ lastResponse' = <<>>
  /\ UNCHANGED <<appVars, mounted, session, sessions, pinged>>

\* the component unmounts: the cleanups of its effects run; responses still
\* to come find no component
unmount ==
  /\ mounted
  /\ ended' = sessionCleanup(cleanupSession, ended)
  /\ mounted' = FALSE
  /\ session' = <<>>
  /\ cleanupSession' = <<>>
  /\ starting' = { [c EXCEPT !.orphan = TRUE] : c \in starting }
  /\ lastOp' = "unmount"
  /\ lastResponse' = <<>>
  /\ UNCHANGED <<appVars, documentId, sessions, pinged>>

\* startSession returns a session: setSession
StartResolve(c) ==
  /\ c \in starting
  /\ sessions < MaxSessions
  /\ sessions' = sessions + 1
  /\ session' = IF c.orphan THEN session
                ELSE <<[session_id |-> sessions + 1, document_id |-> c.doc]>>
  /\ starting' = starting \ {c}
  /\ lastOp' = "startSuccess"
  /\ lastResponse' = <<>>
  /\ UNCHANGED <<appVars, mounted, documentId, cleanupSession, ended, pinged>>

\* startSession fails: response interceptor, then the catch logs
StartReject(c, err) ==
  /\ c \in starting
  /\ starting' = starting \ {c}
  /\ LET r == ResponseInterceptor(err, localStorage, path, navTarget)
     IN /\ localStorage' = r.storage
        /\ navTarget' = r.href
  /\ cleared401' = (cleared401 \/ err.status = 401)
  /\ lastOp' = "startError"
  /\ lastResponse' = <<err>>
  /\ UNCHANGED <<chatVars, histVars, lastToast, authVars, path, fromLoc, view, now,
                 pending, saveMessage, dataVars, mounted, documentId, session,
                 cleanupSession, sessions, ended, pinged>>

\* the interval of the heartbeat effect fires: sendHeartbeat for the
\* session of the render the effect ran in
sendPing ==
  /\ mounted
  /\ session # <<>>
  /\ pinged' = <<session[1].session_id>>
  /\ lastOp' = "sendPing"
  /\ lastResponse' = <<>>
  /\ UNCHANGED <<appVars, mounted, documentId, session, cleanupSession, starting,
                 sessions, ended>>

\* ======================================================= specifications
\* the state after construction: empty stores, empty storage, login page
InitAuth ==
  /\ currentConversation = <<>>
  /\ currentConversationId = Null
  /\ isLoading = FALSE
  /\ message = <<>>
  /\ inflight = <<>>
  /\ lastToast = Null
  /\ user = Null
  /\ token = Null
  /\ isAuthenticated = FALSE
  /\ localStorage = emptyStorage
  /\ path = "/login"
  /\ fromLoc = Null
  /\ view = "Login"
  /\ navTarget = Null
  /\ now = 0
  /\ pending = {}
  /\ lastOp = "init"
  /\ cleared401 = FALSE
  /\ conversations = <<>>
  /\ added = noneAdded
  /\ saveMessage = Null
  /\ lastResponse = <<>>
  /\ queryCache = emptyCache
  /\ server = [k \in QueryKeys |-> 0]
  /\ isUploadModalOpen = FALSE
  /\ selectedFile = <<>>
  /\ isUploading = FALSE
  /\ calls = {}
  /\ PresenceInit

\* the chat page just opened by a signed-in user
Init ==
  /\ currentConversation = <<>>
  /\ currentConversationId = Null
  /\ isLoading = FALSE
  /\ message = <<>>
  /\ inflight = <<>>
  /\ lastToast = Null
  /\ user = "u1"
  /\ token = "t1"
  /\ isAuthenticated = TRUE
  /\ localStorage = setItem(persist(emptyStorage, setAuth("u1", "t1")), "edgeai_token", "t1")
  /\ path = "/chat"
  /\ fromLoc = Null
  /\ view = "Chat"
  /\ navTarget = Null
  /\ now = 0
  /\ pending = {}
  /\ lastOp = "init"
  /\ cleared401 = FALSE
  /\ conversations = <<>>
  /\ added = noneAdded
  /\ saveMessage = Null
  /\ lastResponse = <<>>
  /\ queryCache = emptyCache
  /\ server = [k \in QueryKeys |-> 0]
  /\ isUploadModalOpen = FALSE
  /\ selectedFile = <<>>
  /\ isUploading = FALSE
  /\ calls = {}
  /\ PresenceInit

\* the conversation flow
Next ==
  \/ \E t \in Texts : SetMessage(t)
  \/ handleSendMessage
  \/ \E i \in 1..(MaxMsgs \div 2), body \in ApiResponses, dt \in 0..1 : AskResolve(i, body, dt)
  \/ \E i \in 1..(MaxMsgs \div 2), err \in Errors : AskReject(i, err)
  \/ clearCurrentConversation
  \/ \E id \in ConversationIds \cup {Null} : setCurrentConversationId(id)
  \/ Tick
  \/ Reload

Spec == Init /\ [][Next]_vars

\* the backend call of a question in flight resolves or rejects
Respond ==
  \/ \E i \in 1..(MaxMsgs \div 2), body \in ApiResponses, dt \in 0..1 : AskResolve(i, body, dt)
  \/ \E i \in 1..(MaxMsgs \div 2), err \in Errors : AskReject(i, err)

\* the chat hook under any caller: sends, completions and clears in any
\* order
NextHook ==
  \/ \E m \in HookMessages : sendMessage(m)
  \/ \E i \in 1..(MaxMsgs \div 2), body \in ApiResponses, dt \in 0..1 : AskResolve(i, body, dt)
  \/ \E i \in 1..(MaxMsgs \div 2), err \in Errors : AskReject(i, err)
  \/ storeClearCurrentConversation
  \/ \E id \in ConversationIds \cup {Null} : setCurrentConversationId(id)
  \/ Tick
  \/ Reload

SpecHook == Init /\ [][NextHook]_vars

\* the presence component under any parent
NextPresence ==
  \/ \E d \in DocumentIds : mount(d)
  \/ \E d \in DocumentIds : changeDocument(d)
  \/ unmount
  \/ \E c \in starting : StartResolve(c)
  \/ \E c \in starting, err \in Errors : StartReject(c, err)
  \/ sendPing

SpecPresence == Init /\ [][NextPresence]_vars

\* the conversation flow with a backend that answers every question
SpecLive == Init /\ [][Next]_vars /\ WF_vars(Respond)

\* the session flows
NextAuth ==
  \/ LoginSubmit
  \/ \E req \in pending, t \in Tokens : LoginToken(req, t)
  \/ \E req \in pending, u \in Users : LoginSuccess(req, u)
  \/ RegisterSubmit
  \/ \E req \in pending, u \in Users : RegisterCreated(req, u)
  \/ \E req \in pending, t \in Tokens : RegisterSuccess(req, t)
  \/ handleLogout
  \/ useAuthLogout
  \/ handleSave
  \/ \E req \in pending : refreshUser(req)
  \/ \E req \in pending, u \in Users : RefreshSuccess(req, u)
  \/ MeQuery
  \/ \E req \in pending, u \in Users : MeSuccess(req, u)
  \/ ApiCall
  \/ \E req \in pending : ApiSuccess(req)
  \/ \E req \in pending, err \in Errors : RequestReject(req, err)
  \/ SaveMessageTimeout
  \/ Reload
  \/ NavigateEffect
  \/ LoginEffect
  \/ \E p \in Paths : UserNavigate(p)

SpecAuth == InitAuth /\ [][NextAuth]_vars

\* the conversation store under every call its interface offers
NextStore ==
  \/ \E messages \in StoreTranscripts : storeSetCurrentConversation(messages)
  \/ \E m \in StoreMessages : storeAddMessage(m)
  \/ \E list \in StoreHistories : storeSetConversations(list)
  \/ \E id \in ConversationIds \cup {Null} : setCurrentConversationId(id)
  \/ \E loading \in BOOLEAN : storeSetLoading(loading)
  \/ storeClearCurrentConversation

SpecStore == Init /\ [][NextStore]_vars

\* the documents page just opened by a signed-in user
InitData ==
  /\ currentConversation = <<>>
  /\ currentConversationId = Null
  /\ isLoading = FALSE
  /\ message = <<>>
  /\ inflight = <<>>
  /\ lastToast = Null
  /\ user = "u1"
  /\ token = "t1"
  /\ isAuthenticated = TRUE
  /\ localStorage = setItem(persist(emptyStorage, setAuth("u1", "t1")), "edgeai_token", "t1")
  /\ path = "/documents"
  /\ fromLoc = Null
  /\ view = "Documents"
  /\ navTarget = Null
  /\ now = 0
  /\ pending = {}
  /\ lastOp = "init"
  /\ cleared401 = FALSE
  /\ conversations = <<>>
  /\ added = noneAdded
  /\ saveMessage = Null
  /\ lastResponse = <<>>
  /\ queryCache = emptyCache
  /\ server = [k \in QueryKeys |-> 0]
  /\ isUploadModalOpen = FALSE
  /\ selectedFile = <<>>
  /\ isUploading = FALSE
  /\ calls = {}
  /\ PresenceInit

\* the resource pages: documents and agents
NextData ==
  \/ openUploadModal
  \/ closeUploadModal
  \/ \E file \in Files : handleInputChange(file)
  \/ clearSelectedFile
  \/ handleUpload
  \/ \E call \in calls : UploadResolve(call)
  \/ \E kind \in {"delete", "process", "execute"} : Mutate(kind)
  \/ \E call \in calls : MutationResolve(call)
  \/ \E call \in calls, err \in Errors : MutationReject(call, err)
  \/ \E k \in QueryKeys : QueryFetch(k)
  \/ \E call \in calls : QueryResolve(call)
  \/ \E call \in calls, err \in Errors : QueryReject(call, err)
  \/ \E p \in {"/documents", "/agents"} : UserNavigate(p)
  \/ Reload

SpecData == InitData /\ [][NextData]_vars

\* =============================================================== claims
\* C1: a successful question appends exactly two messages, the user message
\* with the submitted text and then the assistant message with the response
\* text and the response's agent, sources and routing, and clears isLoading.
C1_SuccessAppendsPair ==
  [][lastOp' = "askSuccess" =>
       \E i \in DOMAIN inflight, body \in ApiResponses :
         LET n == Len(currentConversation)
             u == currentConversation'[n + 1]
             a == currentConversation'[n + 2]
         IN /\ inflight' = RemoveAt(inflight, i)
            /\ Len(currentConversation') = n + 2
            /\ SubSeq(currentConversation', 1, n) = currentConversation
            /\ u.role = "user"
            /\ u.content = inflight[i].message
            /\ a.role = "assistant"
            /\ a.content = body.response
            /\ a.agent = body.agent_used
            /\ a.sources = body.sources
            /\ a.routing = body.routing
            /\ ~isLoading']_vars

C1_Witness ==
  /\ lastOp = "askSuccess"
  /\ Len(currentConversation) = 4
  /\ currentConversation[3].content = <<"a", " ", "b">>
  /\ currentConversation[4].routing = "route1"
  /\ ~isLoading

\* C2: a rejected question leaves the transcript as it was and clears
\* isLoading.
C2_RejectLeavesTranscript ==
  [][lastOp' = "askError" =>
       /\ currentConversation' = currentConversation
       /\ Len(inflight') = Len(inflight) - 1
       /\ ~isLoading']_vars

C2_Witness ==
  /\ lastOp = "askError"
  /\ Len(currentConversation) = 2
  /\ inflight = <<>>
  /\ ~isLoading

\* C3: a submit while isLoading is true sends nothing, and with the chat
\* page's submit handler as the only sender at most one question is in
\* flight.
C3_SubmitWhileLoadingIsNoOp ==
  /\ [](Len(inflight) <= 1)
  /\ [][(lastOp' = "handleSendMessage" /\ isLoading) =>
          UNCHANGED <<inflight, isLoading, currentConversation, message>>]_vars

C3_Witness ==
  /\ lastOp = "handleSendMessage"
  /\ isLoading
  /\ Len(inflight) = 1
  /\ trim(message) # <<>>

\* C4: a submit of empty or white-space-only text sends nothing and changes
\* neither isLoading nor the transcript.
C4_BlankSubmitIsNoOp ==
  [][(lastOp' = "handleSendMessage" /\ trim(message) = <<>>) =>
       UNCHANGED <<inflight, isLoading, currentConversation>>]_vars

C4_Witness ==
  /\ lastOp = "handleSendMessage"
  /\ message = <<"\n", " ">>
  /\ ~isLoading
  /\ inflight = <<>>

\* C5: in every state of the session store isAuthenticated is true exactly
\* when user and token are both non-null; it is true right after a login or
\* registration has called setAuth and false right after logout.
C5_AuthenticatedIffUserAndToken ==
  /\ isAuthenticated <=> (user # Null /\ token # Null)
  /\ lastOp \in {"loginSuccess", "registerSuccess"} => isAuthenticated
  /\ lastOp = "logout" => ~isAuthenticated

C5_Witness ==
  /\ lastOp = "refreshSuccess"
  /\ user # Null
  /\ token = Null
  /\ ~isAuthenticated

\* C6: a 401 removes the token entry and the session entry from storage,
\* starts the redirect to /login unless the path is /login or /register, and
\* the call is still rejected to its caller; any other error clears nothing
\* and redirects nowhere.
C6_UnauthorizedClearsStorage ==
  [][/\ lastOp' \in {"reject401", "rejectOther"} =>
          \E req \in pending :
            /\ pending' = pending \ {req}
            /\ Fallback(req.kind) # Null =>
                 lastToast' \in {"detail1", Fallback(req.kind)}
     /\ lastOp' = "reject401" =>
          /\ localStorage'[STORAGE_KEYS.TOKEN] = <<>>
          /\ localStorage'[STORAGE_KEYS.USER] = <<>>
          /\ path \notin {"/login", "/register"} => navTarget' = "/login"
          /\ path \in {"/login", "/register"} => navTarget' = navTarget
     /\ lastOp' = "rejectOther" =>
          /\ localStorage' = localStorage
          /\ navTarget' = navTarget]_vars

C6_Witness ==
  /\ lastOp = "reject401"
  /\ path = "/register"
  /\ isAuthenticated
  /\ localStorage = emptyStorage
  /\ navTarget = Null

\* C7: once a 401 has been handled the session is destroyed: the store holds
\* no user, no token and isAuthenticated = false, and no session is persisted.
C7_SessionDestroyedAfter401 ==
  lastOp = "reject401" =>
    /\ user = Null
    /\ token = Null
    /\ ~isAuthenticated
    /\ localStorage[STORAGE_KEYS.USER] = <<>>

\* C8: the token the api client reads from storage is the token of the
\* session store, so a request carries Bearer t exactly while the store is
\* authenticated with token t.
C8_ClientTokenAgreesWithStore ==
  /\ getItem(localStorage, STORAGE_KEYS.TOKEN) = token
  /\ RequestInterceptor(localStorage, NoHeader) =
       IF isAuthenticated /\ Truthy(token) THEN Bearer(token) ELSE NoHeader

\* C9: a protected page is shown only while isAuthenticated holds with a
\* non-null token; in any other session state the route is a redirect, which
\* leads to /login and records the requested location.
C9_ProtectedPagesGuarded ==
  /\ [](view \in ProtectedPages => (isAuthenticated /\ token # Null))
  /\ []((path \in ProtectedPaths /\ ~(isAuthenticated /\ token # Null))
          => view = "Navigate")
  /\ [][(lastOp' = "navigate" /\ path \in ProtectedPaths) =>
          (path' = "/login" /\ fromLoc' = path)]_vars

C9_Witness ==
  /\ lastOp = "navigate"
  /\ path = "/login"
  /\ fromLoc = "/settings"
  /\ ~isAuthenticated

\* C10: a reload rehydrates the session store with the user, token and
\* isAuthenticated of the last store update, unless a 401 has cleared the
\* persisted session since that update.
C10_ReloadKeepsSession ==
  [][(lastOp' = "reload" /\ ~cleared401) =>
       <<user', token', isAuthenticated'>> = <<user, token, isAuthenticated>>]_vars

C10_Witness ==
  /\ lastOp = "reload"
  /\ isAuthenticated
  /\ user = "u2"
  /\ token = "t1"
  /\ localStorage[STORAGE_KEYS.USER] # <<>>

\* C11: refreshUser overwrites the cached user only.  On success user becomes
\* the fetched identity while token and isAuthenticated keep their values; on
\* failure the session store is unchanged and the promise resolves, so the
\* caller (the save of the settings page) does not take its error branch.
C11_RefreshUserOverwritesUserOnly ==
  [][/\ lastOp' = "refreshSuccess" =>
          /\ user' = lastResponse'[1]
          /\ token' = token
          /\ isAuthenticated' = isAuthenticated
     /\ (/\ lastOp' \in {"reject401", "rejectOther"}
         /\ \E req \in pending \ pending' : req.kind = "refresh") =>
          /\ UNCHANGED <<user, token, isAuthenticated>>
          /\ saveMessage' = saveMessage]_vars

C11_Witness ==
  /\ lastOp = "reject401"
  /\ saveMessage = "success"
  /\ user = "u2"
  /\ token = "t1"
  /\ isAuthenticated

\* C12: the transcript is append-only: every transition of the conversation
\* store other than the explicit clear leaves the transcript it found as a
\* prefix of the transcript it leaves, so no message is changed or removed.
C12_TranscriptAppendOnly ==
  [][lastOp' # "clearCurrentConversation" =>
       /\ Len(currentConversation) <= Len(currentConversation')
       /\ SubSeq(currentConversation', 1, Len(currentConversation)) = currentConversation]_vars

\* C13: after N addMessage calls on an empty transcript the transcript is the
\* N messages in call order, repeated ids included.
C13_AddMessageKeepsCallOrder ==
  added.fromEmpty =>
    /\ Len(currentConversation) = Len(added.messages)
    /\ currentConversation = added.messages

C13_Witness ==
  /\ lastOp = "addMessage"
  /\ added.fromEmpty
  /\ Len(added.messages) = 3
  /\ added.messages[2].id = added.messages[3].id
  /\ added.messages[2] # added.messages[3]
  /\ Len(currentConversation) = 3

\* C14: clearCurrentConversation, from any state of the store, leaves an empty
\* transcript and a null current conversation id in one step.
C14_ClearYieldsEmpty ==
  [][lastOp' = "clearCurrentConversation" =>
       (currentConversation' = <<>> /\ currentConversationId' = Null)]_vars

C14_Witness ==
  /\ lastOp = "clearCurrentConversation"
  /\ currentConversation = <<>>
  /\ currentConversationId = Null
  /\ isLoading
  /\ conversations # <<>>

\* C15: messages are created in pairs: the user message is appended to the
\* transcript on send, before the backend responds, and the assistant message
\* is appended only once the backend has responded successfully.
C15_UserMessageAppendedOnSend ==
  [][/\ (lastOp' = "handleSendMessage" /\ inflight' # inflight) =>
          /\ Len(currentConversation') = Len(currentConversation) + 1
          /\ currentConversation'[Len(currentConversation')].role = "user"
     /\ lastOp' = "askSuccess" =>
          /\ Len(currentConversation') = Len(currentConversation) + 1
          /\ currentConversation'[Len(currentConversation')].role = "assistant"]_vars

\* C15, amended: nothing is appended on send; once the backend has responded
\* successfully the user message and then the assistant message are appended
\* together, and a rejected send appends neither.
C15_PairAppendedOnSuccess ==
  [][/\ lastOp' = "handleSendMessage" => currentConversation' = currentConversation
     /\ lastOp' = "askError" => currentConversation' = currentConversation
     /\ lastOp' = "askSuccess" =>
          LET n == Len(currentConversation)
          IN /\ Len(currentConversation') = n + 2
             /\ SubSeq(currentConversation', 1, n) = currentConversation
             /\ currentConversation'[n + 1].role = "user"
             /\ currentConversation'[n + 2].role = "assistant"]_vars

C15_Witness ==
  /\ lastOp = "handleSendMessage"
  /\ Len(inflight) = 1
  /\ inflight[1].message = <<"a", " ", "b">>
  /\ isLoading
  /\ currentConversation = <<>>

\* C16: after every successful write (document upload, delete or process;
\* agent execution) the related cached read query is invalidated.
C16_SuccessfulWriteInvalidates ==
  [][lastOp' = "mutationSuccess" =>
       \A call \in calls \ calls' : queryCache'[RelatedKey(call.kind)].isInvalidated]_vars

\* C17: when a mutation fails, the notification shown is the detail of the
\* error when it carries one and a generic text otherwise, the cached read
\* data is left unchanged, and the request is not sent again.
C17_FailedMutationShowsDetail ==
  [][\A call \in calls, err \in Errors :
       MutationReject(call, err) =>
         /\ lastToast' = IF Truthy(err.detail) THEN err.detail ELSE errorToast(call.kind, err)
         /\ lastToast' # Null
         /\ queryCache' = queryCache
         /\ calls' = calls \ {call}]_vars

C19_OnlyValidatedFilesUploaded ==
  [][LET Passing ==
           { f \in Files :
               /\ \E i \in 1..Len(f.name) : f.name[i] = "."
               /\ toLowerCase(split(f.name)[Len(split(f.name))]) \in
                    { <<"p", "d", "f">>, <<"t", "x", "t">>, <<"c", "s", "v">>,
                      <<"x", "l", "s", "x">>, <<"x", "l", "s">> }
               /\ f.size <= 10 * 1024 * 1024 }
     IN /\ \A file \in Files :
             handleInputChange(file) =>
               /\ selectedFile' = <<file>> => file \in Passing
               /\ file \notin Passing => selectedFile' = selectedFile
        /\ \A call \in calls' :
             call.kind = "upload" => call.file # <<>> /\ call.file[1] \in Passing]_vars

\* C20: the chat store is persisted like the session store: a page reload
\* restores the transcript, the conversation list and the current
\* conversation id to their values before the reload.
C20_ChatStoreSurvivesReload ==
  [][lastOp' = "reload" =>
       /\ currentConversation' = currentConversation
       /\ conversations' = conversations
       /\ currentConversationId' = currentConversationId]_vars

\* C21: the send flow returns to idle: whenever isLoading is raised it is
\* lowered again, given that the backend call resolves or rejects.
C21_SendReturnsToIdle == isLoading ~> ~isLoading

C21_Witness ==
  /\ lastOp = "askError"
  /\ ~isLoading
  /\ inflight = <<>>
  /\ Len(currentConversation) = 2

\* C22: with several sends in flight the message pairs enter the
\* transcript in the order in which the responses complete: whichever
\* request completes, its pair is put after everything already there.
C22_PairsInCompletionOrder ==
  [][lastOp' = "askSuccess" =>
       \E i \in DOMAIN inflight :
         LET n == Len(currentConversation)
         IN /\ inflight' = RemoveAt(inflight, i)
            /\ Len(currentConversation') = n + 2
            /\ SubSeq(currentConversation', 1, n) = currentConversation
            /\ currentConversation'[n + 1].content = inflight[i].message
            /\ currentConversation'[n + 2].content = lastResponse'[1].response]_vars

\* the question sent second was answered first: the one still in flight
\* left when no other was in flight
C22_Witness ==
  /\ lastOp = "askSuccess"
  /\ Len(inflight) = 1
  /\ inflight[1].seq = 1
  /\ inflight[1].message = <<"a">>
  /\ Len(currentConversation) = 2
  /\ currentConversation[1].content = <<"a", " ", "b">>

\* C23: a conversation cleared while a send is in flight does not abort
\* the request, and the response that arrives next appends nothing.
C23_LateResponseDiscarded ==
  [][/\ lastOp' = "clearCurrentConversation" => inflight' = inflight
     /\ (lastOp = "clearCurrentConversation" /\ lastOp' = "askSuccess") =>
          currentConversation' = currentConversation]_vars

\* C24: isLoading is true if and only if at least one question request is
\* in flight.
C24_LoadingIffInFlight == isLoading <=> Len(inflight) > 0

\* the conversation was cleared while a question was in flight
C24_Witness ==
  /\ lastOp = "clearCurrentConversation"
  /\ isLoading
  /\ Len(inflight) = 1

C26_MessageIdsDistinct ==
  \A j, k \in 1..Len(currentConversation) :
    j # k => currentConversation[j].id # currentConversation[k].id

\* C27: a refreshUser call or an initial /auth/me fetch that completes
\* after logout() writes no user back into the session store or into its
\* persisted copy.
C27_NoUserAfterLogout ==
  [][(lastOp' \in {"refreshSuccess", "meSuccess"} /\ ~isAuthenticated /\ user = Null) =>
       /\ user' = Null
       /\ rehydrate(localStorage').user = Null]_vars

\* C28: isAuthenticated always implies a non-empty token, so the login
\* page and the protected route never redirect into each other.
C28_AuthenticatedHasToken == isAuthenticated => Truthy(token)

\* C29: when the component unmounts or its document changes after
\* startSession has returned a session, endSession is called with that
\* session's id; heartbeats are sent only for a session that has been
\* started and not ended.
C29_StartedSessionIsEnded ==
  [][/\ (lastOp' \in {"unmount", "changeDocument"} /\ session # <<>>) =>
          session[1].session_id \in ended'
     /\ lastOp' = "sendPing" => pinged'[1] \in (1..sessions) \ ended]_vars
====
